---- MODULE Spec2Model ----
(***************************************************************************)
(* A model of the ribbon chart generators of utilities-RibbonChart:        *)
(* create_ribbon_chart (ribbon_engine.py) and add_ribbon_scenario          *)
(* (ribbon_chart.py).  A call is a state machine: validation, color        *)
(* setup, one step per period of the bar loop, one step per adjacent       *)
(* period pair of the ribbon loop, and the return of the figure.           *)
(*                                                                         *)
(* Numbers of the value column are records [nan, n]: NaN is the record     *)
(* with nan = TRUE, an integer n is [nan |-> FALSE, n |-> n].  Horizontal  *)
(* positions are in thousandths (bar_width 0.4 is 400), sampled curve      *)
(* ordinates are in units of 1/FScale.                                     *)
(***************************************************************************)
EXTENDS Integers, Sequences, FiniteSets, TLC

VARIABLES
    df,             \* the DataFrame: a sequence of rows [x, cat, val]
    df_norm,        \* add_ribbon_scenario's reindexed DataFrame
    cols,           \* df.columns: the set of column names present
    gap,            \* the gap argument
    sort_ascending, \* the sort_ascending argument
    colors,         \* the colors argument: [kind, list, map]
    pc,             \* the position of the call
    periods,        \* sorted(df[x_col].unique())
    categories,     \* sorted(df[category_col].unique())
    color_map,      \* category -> color
    coords,         \* period -> (category -> <<y_start, y_end>>)
    fig,            \* the traces added to the figure, in order
    p_idx,          \* how many periods the bar loop has done
    i,              \* the ribbon loop's index (0-based, as in the code)
    err             \* the exception raised, or NoError

vars == <<df, df_norm, cols, gap, sort_ascending, colors, pc, periods, categories,
          color_map, coords, fig, p_idx, i, err>>

----------------------------------------------------------------------------
(* Bounds and input domains *)

MaxRows == 3

PeriodIds == {1, 2, 4}

Categories == {"A", "B"}

IntValues == {-1, 0, 1, 2}

Gaps == {0, 2}

X_COL == "x"

CATEGORY_COL == "category"

VALUE_COL == "value"

required_cols == <<X_COL, CATEGORY_COL, VALUE_COL>>

NaN == [nan |-> TRUE, n |-> 0]

Num(n) == [nan |-> FALSE, n |-> n]

Values == {NaN} \cup {Num(n) : n \in IntValues}

Rows == [x : PeriodIds, cat : Categories, val : Values]

\* Alphabetical order of the category identifiers (Python's str <).
CatOrd(c) == CASE c = "A" -> 1 [] c = "B" -> 2 [] c = "C" -> 3 [] OTHER -> 4

\* px.colors.qualitative.G10
PaletteG10 == <<"#3366CC", "#DC3912", "#FF9900", "#109618", "#990099",
                "#0099C6", "#DD4477", "#66AA00", "#B82E2E", "#316395">>

EmptyMap == [k \in {} |-> 0]

NoError == [type |-> "none", what |-> <<>>]

NoColors == [kind |-> "none", list |-> <<>>, map |-> EmptyMap]

ListColors(l) == [kind |-> "list", list |-> l, map |-> EmptyMap]

DictColors(m) == [kind |-> "dict", list |-> <<>>, map |-> m]

\* The colors configurations explored: None, lists of length 0, 1; dicts
\* covering no category, one category, every category.
ColorConfigs ==
    {NoColors, ListColors(<<>>), ListColors(<<"red">>),
     DictColors(EmptyMap), DictColors([c \in {"A"} |-> "red"]),
     DictColors([c \in Categories |-> IF c = "A" THEN "red" ELSE "blue"])}

----------------------------------------------------------------------------
(* Helpers: dict update, sorted(unique()), DataFrame.sort_values *)

\* d[k] = v
Put(d, k, v) == [x \in DOMAIN d \cup {k} |-> IF x = k THEN v ELSE d[x]]

RECURSIVE SortInts(_)
SortInts(S) ==
    IF S = {} THEN <<>>
    ELSE LET m == CHOOSE m \in S : \A y \in S : m <= y
         IN <<m>> \o SortInts(S \ {m})

RECURSIVE SortCats(_)
SortCats(S) ==
    IF S = {} THEN <<>>
    ELSE LET m == CHOOSE m \in S : \A y \in S : CatOrd(m) <= CatOrd(y)
         IN <<m>> \o SortCats(S \ {m})

\* sorted(df[x_col].unique())
UniquePeriods(d) == SortInts({d[k].x : k \in DOMAIN d})

\* sorted(df[category_col].unique())
UniqueCategories(d) == SortCats({d[k].cat : k \in DOMAIN d})

\* The value key of sort_values: NaN sorts last in either direction.
ValueBefore(a, b, asc) ==
    IF a.nan THEN FALSE
    ELSE IF b.nan THEN TRUE
    ELSE IF asc THEN a.n < b.n ELSE a.n > b.n

ValueTie(a, b) == (a.nan /\ b.nan) \/ (~a.nan /\ ~b.nan /\ a.n = b.n)

\* by=[value_col, category_col], ascending=[sort_ascending, True]
RowBefore(r, s, asc) ==
    \/ ValueBefore(r.val, s.val, asc)
    \/ ValueTie(r.val, s.val) /\ CatOrd(r.cat) < CatOrd(s.cat)

RemoveAt(s, k) == SubSeq(s, 1, k - 1) \o SubSeq(s, k + 1, Len(s))

\* DataFrame.sort_values: rows that tie on every key keep their order.
RECURSIVE sort_values(_, _)
sort_values(s, asc) ==
    IF s = <<>> THEN <<>>
    ELSE LET k == CHOOSE k \in DOMAIN s :
                     /\ \A j \in DOMAIN s : ~RowBefore(s[j], s[k], asc)
                     /\ \A j \in 1..(k - 1) : RowBefore(s[k], s[j], asc)
         IN <<s[k]>> \o sort_values(RemoveAt(s, k), asc)

\* df[df[x_col] == period]
PeriodRows(d, period) == SelectSeq(d, LAMBDA r : r.x = period)

----------------------------------------------------------------------------
(* get_sigmoid_curve (ribbon_engine.py, ribbon_chart.py) *)

\* n_points = 30
NPoints == 30

\* Sampled ordinates are integers in units of 1/FScale.
FScale == 10^4

\* The sum of the series of exp(num/den) from the given term on, num >= 0.
RECURSIVE ExpSeries(_, _, _, _)
ExpSeries(term, j, num, den) ==
    IF term = 0 THEN 0
    ELSE term + ExpSeries((term * num) \div (den * j), j + 1, num, den)

\* np.exp(num/den), in units of 1/FScale.
ExpFix(num, den) ==
    IF num >= 0 THEN ExpSeries(FScale, 1, num, den)
    ELSE (FScale * FScale) \div ExpSeries(FScale, 1, -num, den)

\* 1 / (1 + np.exp(-10 * (x - 0.5))) at x = k/(n-1), in units of 1/FScale.
Sigmoid(k, n) == (FScale * FScale) \div (FScale + ExpFix(5 * (n - 1) - 10 * k, n - 1))

\* The curve from (x1, y1) to (x2, y2): x in the units of x1 and x2, y in
\* units of 1/FScale.
get_sigmoid_curve(x1, y1, x2, y2) ==
    [x |-> [k \in 1..NPoints |-> x1 + ((k - 1) * (x2 - x1)) \div (NPoints - 1)],
     y |-> [k \in 1..NPoints |-> y1 * FScale + Sigmoid(k - 1, NPoints) * (y2 - y1)]]

----------------------------------------------------------------------------
(* create_ribbon_chart (ribbon_engine.py) *)

\* bar_width = 0.4, in thousandths
BarWidthMilli == 400

Range(s) == {s[k] : k \in DOMAIN s}

IndexOf(s, e) == CHOOSE k \in DOMAIN s : s[k] = e

\* Lines 48-51: the columns the raised ValueError names.
MissingReported(cs) ==
    LET missing == SelectSeq(required_cols, LAMBDA c : c \notin cs)
    IN IF missing = <<>> THEN <<>> ELSE <<Head(missing)>>

\* A palette cycled from index 1 instead of index 0.
PaletteColor_Shifted(pal, cats, c) == pal[(IndexOf(cats, c) % Len(pal)) + 1]

\* Lines 58-65: the palette cycled over the sorted categories.
PaletteColor(pal, cats, c) == pal[((IndexOf(cats, c) - 1) % Len(pal)) + 1]

\* Lines 58-65: the color map, or the ZeroDivisionError of i % len(colors).
ResolveColors(cfg, cats) ==
    IF cfg.kind = "dict" THEN [err |-> NoError, map |-> cfg.map]
    ELSE LET pal == IF cfg.kind = "list" THEN cfg.list ELSE PaletteG10
         IN IF cats # <<>> /\ Len(pal) = 0
            THEN [err |-> [type |-> "ZeroDivisionError", what |-> <<>>],
                  map |-> EmptyMap]
            ELSE [err |-> NoError,
                  map |-> [c \in Range(cats) |-> PaletteColor(pal, cats, c)]]

\* A filter that lets zero through.
Skipped_ZeroKept(val) == val.nan \/ val.n < 0

\* Line 81: the rows the bar loop skips.
Skipped(val) == val.nan \/ val.n <= 0

\* A running offset that forgets the gap.
AdvanceY_NoGap(current_y, val, g) == current_y + val

\* Line 97: the running offset after a bar.
AdvanceY(current_y, val, g) == current_y + (val + g)

\* Lines 90-96: the bar trace.
BarTrace(period, cat, val, y_start, cm, pidx) ==
    [type |-> "bar", x |-> period, y |-> val, base |-> y_start, name |-> cat,
     marker_color |-> cm[cat], width |-> BarWidthMilli, showlegend |-> (pidx = 0)]

\* Lines 79-97: one iteration of the row loop.  st is [current_y, inner,
\* traces, err]: the running offset, coords[period], the bars added and the
\* exception raised.
BarRow(st, row, period, cm, g, pidx) ==
    IF st.err # NoError \/ Skipped(row.val) THEN st
    ELSE LET y_start == st.current_y
             y_end   == st.current_y + row.val.n
             inner   == Put(st.inner, row.cat, <<y_start, y_end>>)
         IN IF row.cat \notin DOMAIN cm
            THEN [st EXCEPT !.inner = inner,
                            !.err = [type |-> "KeyError", what |-> <<row.cat>>]]
            ELSE [current_y |-> AdvanceY(st.current_y, row.val.n, g),
                  inner     |-> inner,
                  traces    |-> Append(st.traces,
                                  BarTrace(period, row.cat, row.val.n, y_start, cm, pidx)),
                  err       |-> NoError]

RECURSIVE BarRows(_, _, _, _, _, _)
BarRows(st, rows, period, cm, g, pidx) ==
    IF rows = <<>> THEN st
    ELSE BarRows(BarRow(st, Head(rows), period, cm, g, pidx),
                 Tail(rows), period, cm, g, pidx)

\* Lines 73-97: the body of the period loop.
LayoutPeriod(d, period, asc, cm, g, pidx) ==
    BarRows([current_y |-> 0, inner |-> EmptyMap, traces |-> <<>>, err |-> NoError],
            sort_values(PeriodRows(d, period), asc), period, cm, g, pidx)

\* Line 104: a ribbon is drawn only for a category in both inner mappings.
HasRibbon(co, p1, p2, cat) == cat \in DOMAIN co[p1] /\ cat \in DOMAIN co[p2]

\* Lines 107-122: the ribbon trace; the polygon is get_sigmoid_curve of these
\* extents.
RibbonTrace(co, p1, p2, k, cat, cm, bw) ==
    [type |-> "scatter", legendgroup |-> cat, i |-> k,
     x1 |-> k * 1000 + bw \div 2, x2 |-> (k + 1) * 1000 - bw \div 2,
     y1_b |-> co[p1][cat][1], y1_t |-> co[p1][cat][2],
     y2_b |-> co[p2][cat][1], y2_t |-> co[p2][cat][2],
     fillcolor |-> cm[cat]]

RECURSIVE RibbonCats(_, _, _, _, _, _)
RibbonCats(cats, co, p1, p2, k, cm) ==
    IF cats = <<>> THEN <<>>
    ELSE (IF HasRibbon(co, p1, p2, Head(cats))
          THEN <<RibbonTrace(co, p1, p2, k, Head(cats), cm, BarWidthMilli)>>
          ELSE <<>>)
         \o RibbonCats(Tail(cats), co, p1, p2, k, cm)

AfterBars(ps) == IF Len(ps) > 1 THEN "ribbons" ELSE "polish"

\* The order in which the explored DataFrames list their rows: category by
\* category, each category period by period (a long-form table grouped by
\* series), NaN before the numbers.
ValRank(v) == IF v.nan THEN -2 ELSE v.n

RowListedBefore(r, s) ==
    \/ CatOrd(r.cat) < CatOrd(s.cat)
    \/ r.cat = s.cat /\ r.x < s.x
    \/ r.cat = s.cat /\ r.x = s.x /\ ValRank(r.val) <= ValRank(s.val)

\* The DataFrames explored: at most MaxRows rows, repeated rows and repeated
\* (period, category) keys included.
Tables ==
    {s \in UNION {[1..n -> Rows] : n \in 0..MaxRows} :
        \A k \in 1..(Len(s) - 1) : RowListedBefore(s[k], s[k + 1])}

ColumnSets == SUBSET Range(required_cols)

Init ==
    /\ \/ /\ df \in Tables
          /\ cols = Range(required_cols)
          /\ \/ gap \in Gaps /\ sort_ascending \in BOOLEAN /\ colors = NoColors
             \/ gap = 2 /\ sort_ascending = TRUE /\ colors \in ColorConfigs \ {NoColors}
       \/ /\ df = <<>>
          /\ cols \in ColumnSets \ {Range(required_cols)}
          /\ gap = 2 /\ sort_ascending = TRUE /\ colors = NoColors
    /\ df_norm = <<>>
    /\ pc = "validate"
    /\ periods = <<>>
    /\ categories = <<>>
    /\ color_map = EmptyMap
    /\ coords = EmptyMap
    /\ fig = <<>>
    /\ p_idx = 0
    /\ i = 0
    /\ err = NoError

\* Lines 47-55: validation, then the sorted periods and categories.
Validate ==
    /\ pc = "validate"
    /\ IF MissingReported(cols) # <<>>
       THEN /\ pc' = "error"
            /\ err' = [type |-> "ValueError", what |-> MissingReported(cols)]
            /\ UNCHANGED <<periods, categories>>
       ELSE /\ pc' = "colors"
            /\ periods' = UniquePeriods(df)
            /\ categories' = UniqueCategories(df)
            /\ err' = err
    /\ UNCHANGED <<df, df_norm, cols, gap, sort_ascending, colors, color_map, coords,
                   fig, p_idx, i>>

\* Lines 57-68: the color map, the empty figure and the empty coords.
ColorSetup ==
    /\ pc = "colors"
    /\ LET r == ResolveColors(colors, categories)
       IN /\ color_map' = r.map
          /\ err' = r.err
          /\ pc' = IF r.err # NoError THEN "error"
                   ELSE IF periods # <<>> THEN "bars" ELSE AfterBars(periods)
    /\ UNCHANGED <<df, df_norm, cols, gap, sort_ascending, colors, periods, categories,
                   coords, fig, p_idx, i>>

\* Lines 71-97: one iteration of the period loop.
BarPeriod ==
    /\ pc = "bars"
    /\ p_idx < Len(periods)
    /\ LET period == periods[p_idx + 1]
           st == LayoutPeriod(df, period, sort_ascending, color_map, gap, p_idx)
       IN /\ coords' = Put(coords, period, st.inner)
          /\ fig' = fig \o st.traces
          /\ err' = st.err
          /\ p_idx' = IF st.err # NoError THEN p_idx ELSE p_idx + 1
          /\ pc' = IF st.err # NoError THEN "error"
                   ELSE IF p_idx + 1 < Len(periods) THEN "bars"
                   ELSE AfterBars(periods)
    /\ UNCHANGED <<df, df_norm, cols, gap, sort_ascending, colors, periods, categories,
                   color_map, i>>

\* Lines 100-125: one iteration of the ribbon loop.
RibbonPair ==
    /\ pc = "ribbons"
    /\ i < Len(periods) - 1
    /\ fig' = fig \o RibbonCats(categories, coords, periods[i + 1],
                                periods[i + 2], i, color_map)
    /\ i' = i + 1
    /\ pc' = IF i + 1 < Len(periods) - 1 THEN "ribbons" ELSE "polish"
    /\ UNCHANGED <<df, df_norm, cols, gap, sort_ascending, colors, periods, categories,
                   color_map, coords, p_idx, err>>

\* Lines 127-140: update_layout and return fig.
Polish ==
    /\ pc = "polish"
    /\ pc' = "done"
    /\ UNCHANGED <<df, df_norm, cols, gap, sort_ascending, colors, periods, categories,
                   color_map, coords, fig, p_idx, i, err>>

Next == Validate \/ ColorSetup \/ BarPeriod \/ RibbonPair \/ Polish

Spec == Init /\ [][Next]_vars

----------------------------------------------------------------------------
(* add_ribbon_scenario (ribbon_chart.py) *)

\* bar_width = 0.35, in thousandths
ScenarioBarWidthMilli == 350

\* px.colors.qualitative.D3
PaletteD3 == <<"#1F77B4", "#FF7F0E", "#2CA02C", "#D62728", "#9467BD",
               "#8C564B", "#E377C2", "#7F7F7F", "#BCBD22", "#17BECF">>

\* Float addition and subtraction: NaN propagates.
FAdd(a, b) == IF a.nan \/ b.nan THEN NaN ELSE Num(a.n + b.n)

FSub(a, b) == IF a.nan \/ b.nan THEN NaN ELSE Num(a.n - b.n)

\* Float comparisons: every comparison with NaN is False.
FPositive(a) == ~a.nan /\ a.n > 0

FIsZero(a) == ~a.nan /\ a.n = 0

\* Two rows share their (period, category) label: reindex raises on them.
HasDuplicateLabels(d) ==
    \E a, b \in DOMAIN d : a # b /\ d[a].x = d[b].x /\ d[a].cat = d[b].cat

\* The row reindex yields for one label of the full index (fill_value=0).
ReindexRow(d, p, c) ==
    IF \E k \in DOMAIN d : d[k].x = p /\ d[k].cat = c
    THEN d[CHOOSE k \in DOMAIN d : d[k].x = p /\ d[k].cat = c]
    ELSE [x |-> p, cat |-> c, val |-> Num(0)]

\* Lines 50-51: the table over the full product of periods and categories.
Reindex(d, ps, cats) ==
    [k \in 1..(Len(ps) * Len(cats)) |->
        ReindexRow(d, ps[((k - 1) \div Len(cats)) + 1], cats[((k - 1) % Len(cats)) + 1])]

\* Line 94: the ribbon is skipped only when both segments have zero height.
ScenarioSkipsRibbon(co, p1, p2, cat) ==
    /\ FIsZero(FSub(co[p1][cat][2], co[p1][cat][1]))
    /\ FIsZero(FSub(co[p2][cat][2], co[p2][cat][1]))

\* Lines 69-86: one iteration of the row loop.  st is [current_y, inner,
\* traces]; seen is the set of categories already in the legend.
ScenarioBarRow(st, row, period, cm, g, seen) ==
    LET y_start == st.current_y
        y_end   == FAdd(st.current_y, row.val)
        inner   == Put(st.inner, row.cat, <<y_start, y_end>>)
        names   == seen \cup {st.traces[k].name : k \in DOMAIN st.traces}
    IN IF FPositive(row.val)
       THEN [current_y |-> FAdd(st.current_y, FAdd(row.val, Num(g))),
             inner     |-> inner,
             traces    |-> Append(st.traces,
                 [type |-> "bar", x |-> period, y |-> row.val.n, base |-> y_start.n,
                  name |-> row.cat, marker_color |-> cm[row.cat],
                  width |-> ScenarioBarWidthMilli,
                  showlegend |-> (row.cat \notin names)])]
       ELSE [st EXCEPT !.inner = inner]

RECURSIVE ScenarioBarRows(_, _, _, _, _, _)
ScenarioBarRows(st, rows, period, cm, g, seen) ==
    IF rows = <<>> THEN st
    ELSE ScenarioBarRows(ScenarioBarRow(st, Head(rows), period, cm, g, seen),
                         Tail(rows), period, cm, g, seen)

\* Lines 96-107: the ribbon trace; x1 and x2 are computed from the period
\* identifiers p1 and p2.
ScenarioRibbonTrace(co, p1, p2, k, cat, cm) ==
    [type |-> "scatter", legendgroup |-> cat, i |-> k,
     x1 |-> p1 * 1000 + ScenarioBarWidthMilli \div 2,
     x2 |-> p2 * 1000 - ScenarioBarWidthMilli \div 2,
     y1_b |-> co[p1][cat][1], y1_t |-> co[p1][cat][2],
     y2_b |-> co[p2][cat][1], y2_t |-> co[p2][cat][2],
     fillcolor |-> cm[cat]]

RECURSIVE ScenarioRibbonCats(_, _, _, _, _, _)
ScenarioRibbonCats(cats, co, p1, p2, k, cm) ==
    IF cats = <<>> THEN <<>>
    ELSE (IF ScenarioSkipsRibbon(co, p1, p2, Head(cats))
          THEN <<>>
          ELSE <<ScenarioRibbonTrace(co, p1, p2, k, Head(cats), cm)>>)
         \o ScenarioRibbonCats(Tail(cats), co, p1, p2, k, cm)

\* The categories already shown in the legend: those of the bars added.
SeenCategories(f) == {f[k].name : k \in {j \in DOMAIN f : f[j].type = "bar"}}

InitScenario ==
    /\ df \in Tables
    /\ cols = Range(required_cols)
    /\ gap \in Gaps
    /\ sort_ascending = TRUE
    /\ colors = NoColors
    /\ df_norm = <<>>
    /\ pc = "normalize"
    /\ periods = <<>>
    /\ categories = <<>>
    /\ color_map = EmptyMap
    /\ coords = EmptyMap
    /\ fig = <<>>
    /\ p_idx = 0
    /\ i = 0
    /\ err = NoError

\* Lines 46-62: periods, categories, the reindexed table and the colors.
ScenarioNormalize ==
    /\ pc = "normalize"
    /\ periods' = UniquePeriods(df)
    /\ categories' = UniqueCategories(df)
    /\ IF HasDuplicateLabels(df)
       THEN /\ pc' = "error"
            /\ err' = [type |-> "ValueError", what |-> <<>>]
            /\ UNCHANGED <<df_norm, color_map>>
       ELSE /\ df_norm' = Reindex(df, periods', categories')
            /\ color_map' = [c \in Range(categories') |->
                                PaletteColor(PaletteD3, categories', c)]
            /\ pc' = IF periods' # <<>> THEN "bars" ELSE "return"
            /\ err' = err
    /\ UNCHANGED <<df, cols, gap, sort_ascending, colors, coords, fig, p_idx, i>>

\* Lines 65-86: one iteration of the period loop.
ScenarioBarPeriod ==
    /\ pc = "bars"
    /\ p_idx < Len(periods)
    /\ LET period == periods[p_idx + 1]
           st == ScenarioBarRows(
                     [current_y |-> Num(0), inner |-> EmptyMap, traces |-> <<>>],
                     sort_values(PeriodRows(df_norm, period), TRUE),
                     period, color_map, gap, SeenCategories(fig))
       IN /\ coords' = Put(coords, period, st.inner)
          /\ fig' = fig \o st.traces
    /\ p_idx' = p_idx + 1
    /\ pc' = IF p_idx + 1 < Len(periods) THEN "bars"
             ELSE IF Len(periods) > 1 THEN "ribbons" ELSE "return"
    /\ UNCHANGED <<df, df_norm, cols, gap, sort_ascending, colors, periods,
                   categories, color_map, i, err>>

\* Lines 89-108: one iteration of the ribbon loop.
ScenarioRibbonPair ==
    /\ pc = "ribbons"
    /\ i < Len(periods) - 1
    /\ fig' = fig \o ScenarioRibbonCats(categories, coords, periods[i + 1],
                                        periods[i + 2], i, color_map)
    /\ i' = i + 1
    /\ pc' = IF i + 1 < Len(periods) - 1 THEN "ribbons" ELSE "return"
    /\ UNCHANGED <<df, df_norm, cols, gap, sort_ascending, colors, periods,
                   categories, color_map, coords, p_idx, err>>

\* Line 110: return traces_added.
ScenarioReturn ==
    /\ pc = "return"
    /\ pc' = "done"
    /\ UNCHANGED <<df, df_norm, cols, gap, sort_ascending, colors, periods,
                   categories, color_map, coords, fig, p_idx, i, err>>

NextScenario ==
    ScenarioNormalize \/ ScenarioBarPeriod \/ ScenarioRibbonPair \/ ScenarioReturn

SpecScenario == InitScenario /\ [][NextScenario]_vars

----------------------------------------------------------------------------
(* The example of the specification: periods P1 = 1, P2 = 2 *)

ExampleRows ==
    {[x |-> 1, cat |-> "A", val |-> Num(30)], [x |-> 1, cat |-> "B", val |-> Num(10)],
     [x |-> 2, cat |-> "A", val |-> Num(10)], [x |-> 2, cat |-> "B", val |-> Num(30)]}

\* The example table with its four rows in every order.
ExampleTables ==
    {s \in [1..Cardinality(ExampleRows) -> ExampleRows] : Range(s) = ExampleRows}

InitExample ==
    /\ df \in ExampleTables
    /\ cols = Range(required_cols)
    /\ gap = 2
    /\ sort_ascending = TRUE
    /\ colors \in ColorConfigs
    /\ df_norm = <<>>
    /\ pc = "validate"
    /\ periods = <<>>
    /\ categories = <<>>
    /\ color_map = EmptyMap
    /\ coords = EmptyMap
    /\ fig = <<>>
    /\ p_idx = 0
    /\ i = 0
    /\ err = NoError

SpecExample == InitExample /\ [][Next]_vars

----------------------------------------------------------------------------
(* What the claims read off a state *)

AllColumns == cols = Range(required_cols)

\* The positive, non-NaN values the table holds for (period, category).
PositiveValues(p, c) ==
    {df[k].val.n : k \in {j \in DOMAIN df :
        df[j].x = p /\ df[j].cat = c /\ ~df[j].val.nan /\ df[j].val.n > 0}}

Bars == {fig[k] : k \in {j \in DOMAIN fig : fig[j].type = "bar"}}

Ribbons == {fig[k] : k \in {j \in DOMAIN fig : fig[j].type = "scatter"}}

\* The y-ranges a ribbon connects: <<from, to>>.
RibbonSpans(c) ==
    {<<<<r.y1_b, r.y1_t>>, <<r.y2_b, r.y2_t>>>> : r \in {t \in Ribbons : t.legendgroup = c}}

----------------------------------------------------------------------------
(* C1 *)

\* C1: for the example table (P1: A = 30, B = 10; P2: A = 10, B = 30),
\* gap = 2 and sort_ascending = True, the call ends with the coordinate map
\* P1: B = [0, 10], A = [12, 42], P2: B = [0, 30], A = [32, 42], one ribbon
\* for A from [12, 42] to [32, 42] and one for B from [0, 10] to [0, 30].
C1_Example ==
    pc = "done" =>
        /\ DOMAIN coords = {1, 2}
        /\ DOMAIN coords[1] = {"A", "B"} /\ DOMAIN coords[2] = {"A", "B"}
        /\ coords[1]["B"] = <<0, 10>> /\ coords[1]["A"] = <<12, 42>>
        /\ coords[2]["B"] = <<0, 30>> /\ coords[2]["A"] = <<32, 42>>
        /\ Cardinality({k \in DOMAIN fig : fig[k].type = "scatter"}) = 2
        /\ RibbonSpans("A") = {<<<<12, 42>>, <<32, 42>>>>}
        /\ RibbonSpans("B") = {<<<<0, 10>>, <<0, 30>>>>}

\* C1 as amended: for the same call the coordinate map is P1: B = [0, 10],
\* A = [12, 42] and P2: A = [0, 10], B = [12, 42] (at P2 the smaller value,
\* A = 10, is at the bottom); the ribbon for A connects [12, 42] to [0, 10]
\* and the ribbon for B connects [0, 10] to [12, 42].
C1_ExampleAmended ==
    pc = "done" =>
        /\ DOMAIN coords = {1, 2}
        /\ DOMAIN coords[1] = {"A", "B"} /\ DOMAIN coords[2] = {"A", "B"}
        /\ coords[1]["B"] = <<0, 10>> /\ coords[1]["A"] = <<12, 42>>
        /\ coords[2]["A"] = <<0, 10>> /\ coords[2]["B"] = <<12, 42>>
        /\ Cardinality({k \in DOMAIN fig : fig[k].type = "scatter"}) = 2
        /\ RibbonSpans("A") = {<<<<12, 42>>, <<0, 10>>>>}
        /\ RibbonSpans("B") = {<<<<0, 10>>, <<12, 42>>>>}

\* The example call has returned its figure: four bars and two ribbons.
C1_Witness == pc = "done" /\ colors = NoColors /\ Len(fig) = 6

----------------------------------------------------------------------------
(* C2, C3, C4: the stack of one period *)

\* The bar loop has left no period half done.
NoPartialPeriod == pc \in {"bars", "ribbons", "polish", "done"}

\* The categories of one inner mapping, in order of y_start.
RECURSIVE SegsByStart(_)
SegsByStart(inner) ==
    IF DOMAIN inner = {} THEN <<>>
    ELSE LET c == CHOOSE c \in DOMAIN inner :
                     \A d \in DOMAIN inner : inner[c][1] <= inner[d][1]
         IN <<c>> \o SegsByStart([d \in DOMAIN inner \ {c} |-> inner[d]])

\* The filtered observations of a period: value not NaN and > 0.
FilteredObs(p) ==
    SelectSeq(df, LAMBDA r : r.x = p /\ ~r.val.nan /\ r.val.n > 0)

\* r may directly precede s in the order (value per flag, category ascending).
InOrder(r, s) ==
    \/ sort_ascending /\ r.val.n < s.val.n
    \/ ~sort_ascending /\ r.val.n > s.val.n
    \/ r.val.n = s.val.n /\ CatOrd(r.cat) <= CatOrd(s.cat)

\* The sequences of categories that list obs in sorted order.
SortedCategoryLists(obs) ==
    {[k \in DOMAIN obs |-> obs[f[k]].cat] :
        f \in {g \in [DOMAIN obs -> DOMAIN obs] :
                 /\ \A a, b \in DOMAIN obs : a # b => g[a] # g[b]
                 /\ \A k \in 1..(Len(obs) - 1) : InOrder(obs[g[k]], obs[g[k + 1]])}}

\* C2: in every period's inner mapping the segments, in order of y_start,
\* are exactly gap apart (next.y_start - current.y_end = gap) and the first
\* starts at 0.
C2_GapInvariant ==
    \A p \in DOMAIN coords :
        LET segs == SegsByStart(coords[p])
        IN /\ segs # <<>> => coords[p][segs[1]][1] = 0
           /\ \A k \in 1..(Len(segs) - 1) :
                  coords[p][segs[k + 1]][1] - coords[p][segs[k]][2] = gap

\* C3: the categories of a period's segments, in order of y_start, are the
\* categories of the period's filtered observations sorted by value (in the
\* direction of sort_ascending) and then by category.
C3_StackOrder ==
    NoPartialPeriod =>
        \A p \in DOMAIN coords :
            SegsByStart(coords[p]) \in SortedCategoryLists(FilteredObs(p))

\* C4: every entry of the coordinate map has the height of a positive
\* observed value of its (period, category), every bar is the bar of such a
\* value, every ribbon joins two such entries; so a (period, category) whose
\* values are all NaN, missing or <= 0 has no entry, no bar and no ribbon end.
C4_Exclusion ==
    /\ \A p \in DOMAIN coords : \A c \in DOMAIN coords[p] :
           coords[p][c][2] - coords[p][c][1] \in PositiveValues(p, c)
    /\ \A b \in Bars : b.y \in PositiveValues(b.x, b.name)
    /\ \A r \in Ribbons :
           /\ PositiveValues(periods[r.i + 1], r.legendgroup) # {}
           /\ PositiveValues(periods[r.i + 2], r.legendgroup) # {}

\* A finished call whose table held a NaN, a value <= 0 and a positive value
\* in the same period.
C4_Witness ==
    /\ pc = "done"
    /\ \E a, b, c \in DOMAIN df :
           /\ df[a].val.nan
           /\ ~df[b].val.nan /\ df[b].val.n <= 0
           /\ ~df[c].val.nan /\ df[c].val.n > 0
           /\ df[a].x = df[b].x /\ df[b].x = df[c].x
    /\ Bars # {}

----------------------------------------------------------------------------
(* C6: the ends of a ribbon's curves *)

\* The tolerance of a comparison of sampled points: a thousandth.
CurveTol == FScale \div 1000

Near(a, b) == a - b <= CurveTol /\ b - a <= CurveTol

\* The curve starts at (x1, y1) and ends at (x2, y2).
MeetsEnds(curve, x1, y1, x2, y2) ==
    /\ curve.x[1] = x1 /\ Near(curve.y[1], y1 * FScale)
    /\ curve.x[NPoints] = x2 /\ Near(curve.y[NPoints], y2 * FScale)

\* C6: for every ribbon the top curve starts at (x_start, y1_top) and ends at
\* (x_end, y2_top), and the bottom curve starts at (x_start, y1_bottom) and
\* ends at (x_end, y2_bottom).
C6_BoundaryContinuity ==
    \A r \in Ribbons :
        /\ MeetsEnds(get_sigmoid_curve(r.x1, r.y1_t, r.x2, r.y2_t),
                     r.x1, r.y1_t, r.x2, r.y2_t)
        /\ MeetsEnds(get_sigmoid_curve(r.x1, r.y1_b, r.x2, r.y2_b),
                     r.x1, r.y1_b, r.x2, r.y2_b)

----------------------------------------------------------------------------
(* C7, C8, C9: failures *)

MissingColumns == Range(required_cols) \ cols

NoPositiveValue == \A k \in DOMAIN df : df[k].val.nan \/ df[k].val.n <= 0

\* C7: with a required column absent the call fails with an error that
\* lists all the missing columns, before any coordinate-map entry, bar or
\* ribbon exists.
C7_SchemaError ==
    (~AllColumns /\ pc # "validate") =>
        /\ pc = "error"
        /\ err.type = "ValueError"
        /\ Range(err.what) = MissingColumns
        /\ coords = EmptyMap
        /\ fig = <<>>

\* C8: with the three required columns present the call never fails,
\* whatever the table and the colors configuration.
C8_NoFailure == AllColumns => pc # "error"

\* C9: with the required columns present and no positive value in the table
\* the call does not fail, and it returns a figure with no bar and no ribbon
\* and an empty inner mapping for every period.
C9_EmptyChart ==
    (AllColumns /\ NoPositiveValue) =>
        /\ pc # "error"
        /\ pc = "done" =>
               /\ fig = <<>>
               /\ DOMAIN coords = Range(periods)
               /\ \A p \in DOMAIN coords : coords[p] = EmptyMap

----------------------------------------------------------------------------
(* C10: colors *)

\* The index of c among the alphabetically sorted categories of the table.
CategoryIndex(c) ==
    Cardinality({d \in {df[k].cat : k \in DOMAIN df} : CatOrd(d) < CatOrd(c)})

Palette == IF colors.kind = "list" THEN colors.list ELSE PaletteG10

\* A trace of category c with color col carries color_map[c], which without
\* an explicit dict is palette[i mod len(palette)].
CarriesColor(c, col) ==
    /\ c \in DOMAIN color_map
    /\ col = color_map[c]
    /\ colors.kind # "dict" =>
           /\ Len(Palette) > 0
           /\ col = Palette[(CategoryIndex(c) % Len(Palette)) + 1]

ColorsOfTraces ==
    /\ \A b \in Bars : CarriesColor(b.name, b.marker_color)
    /\ \A r \in Ribbons : CarriesColor(r.legendgroup, r.fillcolor)
    /\ pc \in {"validate", "colors"} => (fig = <<>> /\ coords = EmptyMap)

\* C10: the color map is resolved before layout (nothing is laid out while
\* the call is still validating or resolving colors) and no later step
\* changes it; every bar and ribbon of a category c carries color_map[c],
\* which without an explicit dict is palette[i mod len(palette)], i the
\* index of c among the sorted categories.
C10_ColorStability ==
    /\ []ColorsOfTraces
    /\ [][pc \notin {"validate", "colors"} => color_map' = color_map]_vars

\* A finished call with a list palette shorter than the categories, and a
\* ribbon of the category whose index wraps around.
C10_Witness ==
    /\ pc = "done"
    /\ colors.kind = "list"
    /\ \E r \in Ribbons : CategoryIndex(r.legendgroup) >= Len(colors.list)

----------------------------------------------------------------------------
(* C5: which ribbons exist *)

\* C5: when a generator has finished, a ribbon exists for a category and a
\* pair of adjacent periods exactly when the category has a positive value
\* in both periods.
C5_RibbonExistence ==
    pc = "done" =>
        \A k \in 0..(Len(periods) - 2) : \A c \in Range(categories) :
            (\E r \in Ribbons : r.i = k /\ r.legendgroup = c)
                <=> /\ PositiveValues(periods[k + 1], c) # {}
                    /\ PositiveValues(periods[k + 2], c) # {}

----------------------------------------------------------------------------
(* C11: the horizontal span of a ribbon *)

\* The bar_width of the generator that runs: only add_ribbon_scenario
\* builds df_norm, and it does so before its first ribbon.
RunningBarWidth ==
    IF df_norm = <<>> THEN BarWidthMilli ELSE ScenarioBarWidthMilli

\* C11: the ribbon between the i-th and the (i+1)-th period (0-based index
\* i) spans x_start = i + bar_width/2 to x_end = (i+1) - bar_width/2,
\* whatever the period identifiers are.
C11_RibbonSpan ==
    \A r \in Ribbons :
        /\ r.i \in 0..(Len(periods) - 2)
        /\ r.x1 = r.i * 1000 + RunningBarWidth \div 2
        /\ r.x2 = (r.i + 1) * 1000 - RunningBarWidth \div 2

----------------------------------------------------------------------------
(* C12: the bars and the coordinate map *)

\* The positions in fig of the bars drawn at period p.
BarsAt(p) == {k \in DOMAIN fig : fig[k].type = "bar" /\ fig[k].x = p}

\* C12: for every period the bars drawn are as many as the entries of the
\* period's inner mapping, and each bar's (base, base + height) is the
\* (y_start, y_end) stored under its (period, category), also when the table
\* holds several rows for one (period, category).
C12_BarsMatchCoords ==
    NoPartialPeriod =>
        \A p \in DOMAIN coords :
            /\ Cardinality(BarsAt(p)) = Cardinality(DOMAIN coords[p])
            /\ \A k \in BarsAt(p) :
                   /\ fig[k].name \in DOMAIN coords[p]
                   /\ coords[p][fig[k].name] = <<fig[k].base, fig[k].base + fig[k].y>>

====
